---- MODULE Spec2Model ----
(***************************************************************************)
(* Model of the qtresources command line tool (src/main.cpp).              *)
(*                                                                         *)
(* One behaviour is one invocation of the program.  Strings are sequences  *)
(* of one-character strings, so that startsWith, mid and the printf field  *)
(* formatting are computed, not assumed.  The Qt primitives the program    *)
(* calls (QCommandLineParser, QResource, QLibrary, QDirIterator, QFile)    *)
(* are modelled by their documented behaviour at the call sites.           *)
(***************************************************************************)
EXTENDS Integers, Sequences, FiniteSets

\* ------------------------------------------------------------------ bounds
\* Largest number of command line tokens after the program name (Spec).
MaxArgs == 4
\* Largest length of the cat target operand (SpecCat).
MaxLen == 6

\* ----------------------------------------------------------------- strings
StartsWith(s, p) == Len(s) >= Len(p) /\ SubSeq(s, 1, Len(p)) = p

\* QString::mid(n): the string from (0-based) position n to the end.
Mid(s, n) == SubSeq(s, n + 1, Len(s))

RECURSIVE SeqsUpTo(_, _)
SeqsUpTo(A, n) ==
    IF n = 0 THEN {<<>>}
    ELSE LET shorter == SeqsUpTo(A, n - 1)
         IN  shorter \cup {Append(s, a) : s \in {t \in shorter : Len(t) = n - 1}, a \in A}

\* ------------------------------------------------------------ command table
NoCommand == "NoCommand"
Verify == "Verify"
List == "List"
Cat == "Cat"

commandTable ==
    << [command |-> Verify, name |-> <<"v","e","r","i","f","y">>],
       [command |-> List,   name |-> <<"l","i","s","t">>],
       [command |-> Cat,    name |-> <<"c","a","t">>] >>

\* ---------------------------------------------------------- option names
optHelp == <<"h","e","l","p">>
optVersion == <<"v","e","r","s","i","o","n">>
optA == <<"a">>
optL == <<"l">>

\* Options registered by addHelpOption / addVersionOption.
GlobalOptions == {optHelp, optVersion}

\* Options known to QCommandLineParser when process() runs for a command.
KnownOptions(c) == IF c = List THEN GlobalOptions \cup {optA, optL} ELSE GlobalOptions

ParseAsOptions == "ParseAsOptions"
ParseAsPositionalArguments == "ParseAsPositionalArguments"

\* ----------------------------------------------------- QCommandLineParser
IsOptionToken(t) == Len(t) > 1 /\ t[1] = "-"

OptionName(t) == IF Len(t) > 2 /\ t[2] = "-" THEN Mid(t, 2) ELSE Mid(t, 1)

\* QCommandLineParser::parse over the arguments after the program name.
\* st = [ok, opts, pos, force]; an unknown option clears ok and parsing goes on.
RECURSIVE ParseArgs(_, _, _, _)
ParseArgs(args, known, mode, st) ==
    IF args = <<>> THEN st
    ELSE LET t == Head(args)
             rest == Tail(args)
         IN  IF st.force
               THEN ParseArgs(rest, known, mode, [st EXCEPT !.pos = Append(@, t)])
             ELSE IF t = <<"-","-">>
               THEN ParseArgs(rest, known, mode, [st EXCEPT !.force = TRUE])
             ELSE IF IsOptionToken(t)
               THEN IF OptionName(t) \in known
                      THEN ParseArgs(rest, known, mode,
                                     [st EXCEPT !.opts = @ \cup {OptionName(t)}])
                      ELSE ParseArgs(rest, known, mode, [st EXCEPT !.ok = FALSE])
             ELSE ParseArgs(rest, known, mode,
                            [st EXCEPT !.pos = Append(@, t),
                                       !.force = (mode = ParseAsPositionalArguments)])

Parse(args, known, mode) ==
    LET r == ParseArgs(args, known, mode,
                       [ok |-> TRUE, opts |-> {}, pos |-> <<>>, force |-> FALSE])
    IN  [ok |-> r.ok, opts |-> r.opts, pos |-> r.pos]

isSet(p, name) == name \in p.opts

\* command(clp): the table entry whose name equals the first positional token.
command(p) ==
    IF p.pos = <<>> THEN NoCommand
    ELSE LET hits == {i \in 1..Len(commandTable) : commandTable[i].name = p.pos[1]}
         IN  IF hits = {} THEN NoCommand
             ELSE commandTable[CHOOSE i \in hits : \A j \in hits : i <= j].command

\* Fixed number of positional tokens of a command, the command name included.
Arity(c) == IF c = Cat THEN 3 ELSE 2

\* QCommandLineParser prints the help and the version text on standard output
\* and its parse errors on standard error; each of showHelp, showVersion and a
\* failed process() ends the process.
HelpText == [kind |-> "help", text |-> <<>>]
VersionText == [kind |-> "version", text |-> <<"1",".","0">>]
ParserError == [kind |-> "parser", path |-> <<>>, errors |-> <<"Unknown option">>]

\* Variant: the help request of the NoCommand case ends with code 1 as well.
NoCommandOutcomeHelpFails(p) ==
    IF isSet(p, optVersion) THEN [exits |-> TRUE, code |-> 0, out |-> <<VersionText>>, err |-> <<>>]
    ELSE [exits |-> TRUE, code |-> 1, out |-> <<HelpText>>, err |-> <<>>]

\* What the NoCommand case of main's switch does: showVersion() and showHelp()
\* both end the process with EXIT_SUCCESS, showHelp(1) ends it with 1.
NoCommandOutcome(p) ==
    IF isSet(p, optVersion) THEN [exits |-> TRUE, code |-> 0, out |-> <<VersionText>>, err |-> <<>>]
    ELSE IF isSet(p, optHelp) THEN [exits |-> TRUE, code |-> 0, out |-> <<HelpText>>, err |-> <<>>]
    ELSE [exits |-> TRUE, code |-> 1, out |-> <<HelpText>>, err |-> <<>>]

\* Variant: the arity check only rejects too few positional tokens.
ProcessOutcomeLoose(p, c) ==
    IF ~p.ok THEN [exits |-> TRUE, code |-> 1, out |-> <<>>, err |-> <<ParserError>>]
    ELSE IF isSet(p, optVersion) THEN [exits |-> TRUE, code |-> 0, out |-> <<VersionText>>, err |-> <<>>]
    ELSE IF isSet(p, optHelp) THEN [exits |-> TRUE, code |-> 0, out |-> <<HelpText>>, err |-> <<>>]
    ELSE IF Len(p.pos) < Arity(c) THEN [exits |-> TRUE, code |-> 1, out |-> <<HelpText>>, err |-> <<>>]
    ELSE [exits |-> FALSE, code |-> 0, out |-> <<>>, err |-> <<>>]

\* Variant: an arity mismatch ends the process with the fallback code.
ProcessOutcomeArity2(p, c) ==
    IF ~p.ok THEN [exits |-> TRUE, code |-> 1, out |-> <<>>, err |-> <<ParserError>>]
    ELSE IF isSet(p, optVersion) THEN [exits |-> TRUE, code |-> 0, out |-> <<VersionText>>, err |-> <<>>]
    ELSE IF isSet(p, optHelp) THEN [exits |-> TRUE, code |-> 0, out |-> <<HelpText>>, err |-> <<>>]
    ELSE IF Len(p.pos) # Arity(c) THEN [exits |-> TRUE, code |-> 2, out |-> <<HelpText>>, err |-> <<>>]
    ELSE [exits |-> FALSE, code |-> 0, out |-> <<>>, err |-> <<>>]

\* clp.process(a) followed by the handler's arity check.  process() ends the
\* process with EXIT_FAILURE on a parse error, and with EXIT_SUCCESS after
\* showing the version or the help text; otherwise control continues.
ProcessOutcome(p, c) ==
    IF ~p.ok THEN [exits |-> TRUE, code |-> 1, out |-> <<>>, err |-> <<ParserError>>]
    ELSE IF isSet(p, optVersion) THEN [exits |-> TRUE, code |-> 0, out |-> <<VersionText>>, err |-> <<>>]
    ELSE IF isSet(p, optHelp) THEN [exits |-> TRUE, code |-> 0, out |-> <<HelpText>>, err |-> <<>>]
    ELSE IF Len(p.pos) # Arity(c) THEN [exits |-> TRUE, code |-> 1, out |-> <<HelpText>>, err |-> <<>>]
    ELSE [exits |-> FALSE, code |-> 0, out |-> <<>>, err |-> <<>>]

\* ------------------------------------------------------------- environment
FileG == <<"g">>
FileK == <<"k">>
FileB == <<"b">>

QtPrivatePrefix == <<":","/","q","t","-","p","r","o","j","e","c","t",".","o","r","g">>

DirEntry(path) == [path |-> path, isDir |-> TRUE, size |-> 0, data |-> <<>>]
FileEntry(path, data) == [path |-> path, isDir |-> FALSE, size |-> Len(data), data |-> data]

\* n bytes, none of them zero except the one at position z (z = 0: none).
Bytes(n, z) == [i \in 1..n |-> IF i = z THEN 0 ELSE (i % 255) + 1]

\* QResource::registerResource(path): succeeds for a resource container file.
registerResource(path) == path = FileG

\* QLibrary::load() of the absolute path: succeeds for a loadable library.
libraryLoad(path) == path = FileK

libraryErrorString == "Cannot load library: file too short"

\* The entries QDirIterator(":", Subdirectories) yields, in its order, once the
\* container or library at path has been loaded; for any other path, the
\* entries the Qt runtime itself registers.
Mounted(path) ==
    IF path = FileG THEN
        << DirEntry(<<":","/","d">>),
           FileEntry(<<":","/","d","/","c">>, Bytes(12, 0)),
           FileEntry(<<":","/","q">>, Bytes(3, 2)),
           FileEntry(<<":","/","c">>, Bytes(2, 0)),
           DirEntry(QtPrivatePrefix),
           FileEntry(QtPrivatePrefix \o <<"/","i">>, Bytes(120, 7)),
           DirEntry(QtPrivatePrefix \o <<"a","n","i","c">>),
           FileEntry(QtPrivatePrefix \o <<"a","n","i","c","/","r">>, Bytes(5, 0)) >>
    ELSE IF path = FileK THEN
        << FileEntry(<<":","/","q">>, Bytes(4, 1)),
           DirEntry(QtPrivatePrefix),
           FileEntry(QtPrivatePrefix \o <<"/","i">>, <<>>) >>
    ELSE << DirEntry(QtPrivatePrefix),
            FileEntry(QtPrivatePrefix \o <<"/","i">>, Bytes(7, 0)) >>

\* QFile::open(ReadOnly) on a virtual path: succeeds for a file entry.
CanOpen(container, path) ==
    \E i \in 1..Len(Mounted(container)) :
        Mounted(container)[i].path = path /\ ~Mounted(container)[i].isDir

\* QFile::readAll() of an opened virtual path.
ReadAll(container, path) ==
    LET i == CHOOSE i \in 1..Len(Mounted(container)) : Mounted(container)[i].path = path
    IN  Mounted(container)[i].data

fileErrorString == "No such file or directory"

\* ------------------------------------------------------------ cat helpers
\* Variant: the scheme is cut one character too far.
NormalizeMid4(resource) ==
    LET r1 == IF StartsWith(resource, <<"q","r","c",":","/">>) THEN Mid(resource, 4)
              ELSE resource
    IN  IF ~StartsWith(r1, <<":","/">>) THEN <<":","/">> \o r1 ELSE r1

\* The target operand as main rewrites it before QFile is constructed.
Normalize(resource) ==
    LET r1 == IF StartsWith(resource, <<"q","r","c",":","/">>) THEN Mid(resource, 3)
              ELSE resource
    IN  IF ~StartsWith(r1, <<":","/">>) THEN <<":","/">> \o r1 ELSE r1

\* QByteArray(const char *): the bytes up to, not including, the first zero byte.
RECURSIVE FromCString(_)
FromCString(bytes) ==
    IF bytes = <<>> \/ Head(bytes) = 0 THEN <<>>
    ELSE <<Head(bytes)>> \o FromCString(Tail(bytes))

\* contents = f.readAll().constData(), as the QByteArray that is written.
Contents(bytes) == FromCString(bytes)

\* ----------------------------------------------------------- list helpers
\* Variant: the filter ignores -a.
ShownPublicOnly(fn, showPrivate) == ~StartsWith(fn, QtPrivatePrefix)

\* The filter deciding whether list prints an entry.
Shown(fn, showPrivate) == showPrivate \/ ~StartsWith(fn, QtPrivatePrefix)

Digit(d) == <<"0","1","2","3","4","5","6","7","8","9">>[d + 1]

RECURSIVE Decimal(_)
Decimal(n) == IF n < 10 THEN <<Digit(n)>> ELSE Append(Decimal(n \div 10), Digit(n % 10))

Spaces(n) == [i \in 1..n |-> " "]

\* Variant: left-justified (printf's %-<w>lld).
PadRight(s, w) == IF Len(s) >= w THEN s ELSE s \o Spaces(w - Len(s))

\* printf's %<w>lld: right-justified in w columns, wider when it does not fit.
PadLeft(s, w) == IF Len(s) >= w THEN s ELSE Spaces(w - Len(s)) \o s

\* The line list prints for an entry (without the trailing newline).
FormatEntry(fi, long) ==
    IF long
      THEN <<IF fi.isDir THEN "d" ELSE "-">> \o Spaces(2) \o PadLeft(Decimal(fi.size), 10)
           \o Spaces(2) \o fi.path
      ELSE fi.path

\* ------------------------------------------------------------------- state
VARIABLES
    argv,           \* the command line after the program name
    pc,             \* position in main / loadResource
    clp,            \* the QCommandLineParser's last parse result
    cmd,            \* the selected Command
    exitCode,       \* the process exit code, once pc = "exited"
    out,            \* what stdio wrote to standard output, in order
    written,        \* the bytes handed to write(1, ...)
    err,            \* what was written to standard error, in order
    errors,         \* loadResource's QStringList errors
    ret,            \* loadResource's return value, once it has returned
    showQtPrivate,  \* list: clp.isSet("a")
    printSize,      \* list: clp.isSet("l")
    it,             \* list: number of entries the QDirIterator has yielded
    resource,       \* cat: the QString resource
    calls           \* the library calls made so far, in order, with their results

vars == <<argv, pc, clp, cmd, exitCode, out, written, err, errors, ret,
          showQtPrivate, printSize, it, resource, calls>>

Call(name, ok) == [call |-> name, ok |-> ok]

tok(name) == <<"-">> \o name
longTok(name) == <<"-","-">> \o name

\* The tokens command lines are built from.
Tokens ==
    { longTok(optHelp), longTok(optVersion), tok(optA), tok(optL),
      commandTable[1].name, commandTable[2].name, commandTable[3].name,
      FileG, FileK, FileB,
      <<"q">>, <<"q","r","c",":","/","q">> }

\* The characters cat target operands are built from in SpecCat.
Alphabet == {"q", "r", "c", ":", "/"}

Fresh(args) ==
    /\ argv = args
    /\ pc = "main"
    /\ clp = [ok |-> TRUE, opts |-> {}, pos |-> <<>>]
    /\ cmd = NoCommand
    /\ exitCode = 0
    /\ out = <<>>
    /\ written = <<>>
    /\ err = <<>>
    /\ errors = <<>>
    /\ ret = FALSE
    /\ showQtPrivate = FALSE
    /\ printSize = FALSE
    /\ it = 0
    /\ resource = <<>>
    /\ calls = <<>>

Init == \E args \in SeqsUpTo(Tokens, MaxArgs) : Fresh(args)

InitCat ==
    \E c \in {FileG, FileB}, t \in SeqsUpTo(Alphabet, MaxLen) :
        Fresh(<<commandTable[3].name, c, t>>)

\* exit(code), or return code from main.
Exit(code) == pc' = "exited" /\ exitCode' = code

\* ----------------------------------------------------------------- actions
\* main, lines 101-118: the first parse and the selection of the command.
ParseCommandLine ==
    /\ pc = "main"
    /\ LET p == Parse(argv, GlobalOptions, ParseAsPositionalArguments)
       IN  /\ clp' = p
           /\ IF ~p.ok
                THEN /\ err' = Append(err, ParserError)
                     /\ Exit(1)
                     /\ cmd' = cmd
                ELSE /\ err' = err
                     /\ pc' = "switch"
                     /\ cmd' = command(p)
                     /\ exitCode' = exitCode
    /\ UNCHANGED <<argv, out, written, errors, ret, showQtPrivate, printSize, it,
                   resource, calls>>

\* main, lines 119-126.
NoCommandCase ==
    /\ pc = "switch" /\ cmd = NoCommand
    /\ LET o == NoCommandOutcome(clp)
       IN  /\ out' = out \o o.out
           /\ err' = err \o o.err
           /\ Exit(o.code)
    /\ UNCHANGED <<argv, clp, cmd, written, errors, ret, showQtPrivate, printSize, it,
                   resource, calls>>

\* The part the three command cases share: process(a), the arity check and the
\* call of loadResource (lines 130-135, 143-151, 173-178).
EnterCommand(c) ==
    /\ pc = "switch" /\ cmd = c
    /\ LET p == Parse(argv, KnownOptions(c), ParseAsOptions)
           o == ProcessOutcome(p, c)
       IN  /\ clp' = p
           /\ out' = out \o o.out
           /\ err' = err \o o.err
           /\ showQtPrivate' = (c = List /\ ~o.exits /\ isSet(p, optA))
           /\ printSize' = (c = List /\ ~o.exits /\ isSet(p, optL))
           /\ IF o.exits
                THEN Exit(o.code) /\ calls' = calls
                ELSE /\ pc' = "registerResource"
                     /\ exitCode' = exitCode
                     /\ calls' = Append(calls, Call("loadResource", TRUE))
    /\ UNCHANGED <<argv, cmd, written, errors, ret, it, resource>>

VerifyCase == EnterCommand(Verify)

ListCase == EnterCommand(List)

CatCase == EnterCommand(Cat)

\* Variant: the library load is attempted whatever registerResource returned.
AfterRegisterAlwaysLibrary(ok) == "libraryLoad"

\* Where loadResource goes after QResource::registerResource returned ok.
AfterRegister(ok) == IF ok THEN "loaded" ELSE "libraryLoad"

\* loadResource, lines 23-28.
RegisterResource ==
    /\ pc = "registerResource"
    /\ LET ok == registerResource(clp.pos[2])
       IN  /\ calls' = Append(calls, Call("registerResource", ok))
           /\ pc' = AfterRegister(ok)
           /\ ret' = ok
           /\ errors' = IF ok THEN errors
                        ELSE Append(errors, "Cannot load as Qt Resource file")
    /\ UNCHANGED <<argv, clp, cmd, exitCode, out, written, err, showQtPrivate,
                   printSize, it, resource>>

\* loadResource, lines 30-33.
LibraryLoad ==
    /\ pc = "libraryLoad"
    /\ LET ok == libraryLoad(clp.pos[2])
       IN  /\ calls' = Append(calls, Call("libraryLoad", ok))
           /\ pc' = IF ok THEN "loaded" ELSE "loadFailed"
           /\ ret' = ok
           /\ errors' = IF ok THEN errors ELSE Append(errors, libraryErrorString)
    /\ UNCHANGED <<argv, clp, cmd, exitCode, out, written, err, showQtPrivate,
                   printSize, it, resource>>

\* loadResource, lines 35-38.
ReportLoadFailure ==
    /\ pc = "loadFailed"
    /\ err' = Append(err, [kind |-> "load", path |-> clp.pos[2], errors |-> errors])
    /\ ret' = FALSE
    /\ pc' = "loaded"
    /\ UNCHANGED <<argv, clp, cmd, exitCode, out, written, errors, showQtPrivate,
                   printSize, it, resource, calls>>

\* Variant: the handler ignores loadResource's return value.
LoadedIgnored(r) == TRUE

\* Whether a handler takes its success branch on loadResource's return value.
Loaded(r) == r

\* main, lines 135-137.
VerifyResult ==
    /\ pc = "loaded" /\ cmd = Verify
    /\ IF Loaded(ret) THEN Exit(0) ELSE pc' = "fallback" /\ exitCode' = exitCode
    /\ UNCHANGED <<argv, clp, cmd, out, written, err, errors, ret, showQtPrivate,
                   printSize, it, resource, calls>>

\* main, lines 151-152: the QDirIterator is constructed.
ListBegin ==
    /\ pc = "loaded" /\ cmd = List
    /\ IF Loaded(ret)
         THEN /\ pc' = "iterate"
              /\ calls' = Append(calls, Call("QDirIterator", TRUE))
         ELSE /\ pc' = "fallback"
              /\ calls' = calls
    /\ UNCHANGED <<argv, clp, cmd, exitCode, out, written, err, errors, ret,
                   showQtPrivate, printSize, it, resource>>

\* main, lines 153-165: one round of the while loop.
ListEntry ==
    /\ pc = "iterate"
    /\ it < Len(Mounted(clp.pos[2]))
    /\ LET fi == Mounted(clp.pos[2])[it + 1]
       IN  out' = IF Shown(fi.path, showQtPrivate)
                    THEN Append(out, [kind |-> "line", text |-> FormatEntry(fi, printSize)])
                    ELSE out
    /\ it' = it + 1
    /\ UNCHANGED <<argv, pc, clp, cmd, exitCode, written, err, errors, ret,
                   showQtPrivate, printSize, resource, calls>>

\* main, line 166: hasNext() is false.
ListEnd ==
    /\ pc = "iterate"
    /\ it >= Len(Mounted(clp.pos[2]))
    /\ Exit(0)
    /\ UNCHANGED <<argv, clp, cmd, out, written, err, errors, ret, showQtPrivate,
                   printSize, it, resource, calls>>

\* main, lines 178-193.
CatOpen ==
    /\ pc = "loaded" /\ cmd = Cat
    /\ IF Loaded(ret)
         THEN LET r == Normalize(clp.pos[3])
                  ok == CanOpen(clp.pos[2], r)
              IN  /\ resource' = r
                  /\ IF ok
                       THEN /\ calls' = calls \o <<Call("open", TRUE), Call("readAll", TRUE),
                                                   Call("write", TRUE)>>
                            /\ written' = written \o Contents(ReadAll(clp.pos[2], r))
                            /\ err' = err
                            /\ Exit(0)
                       ELSE /\ calls' = Append(calls, Call("open", FALSE))
                            /\ written' = written
                            /\ err' = Append(err, [kind |-> "open", path |-> r,
                                                   errors |-> <<fileErrorString>>])
                            /\ pc' = "fallback"
                            /\ exitCode' = exitCode
         ELSE /\ pc' = "fallback"
              /\ UNCHANGED <<resource, calls, written, err, exitCode>>
    /\ UNCHANGED <<argv, clp, cmd, out, errors, ret, showQtPrivate, printSize, it>>

\* main, line 196.
Fallback ==
    /\ pc = "fallback"
    /\ Exit(2)
    /\ UNCHANGED <<argv, clp, cmd, out, written, err, errors, ret, showQtPrivate,
                   printSize, it, resource, calls>>

Next ==
    \/ ParseCommandLine
    \/ NoCommandCase
    \/ VerifyCase
    \/ ListCase
    \/ CatCase
    \/ RegisterResource
    \/ LibraryLoad
    \/ ReportLoadFailure
    \/ VerifyResult
    \/ ListBegin
    \/ ListEntry
    \/ ListEnd
    \/ CatOpen
    \/ Fallback

Spec == Init /\ [][Next]_vars

NextCat ==
    \/ ParseCommandLine
    \/ CatCase
    \/ RegisterResource
    \/ LibraryLoad
    \/ ReportLoadFailure
    \/ CatOpen
    \/ Fallback

SpecCat == InitCat /\ [][NextCat]_vars

TypeOK ==
    /\ pc \in {"main", "switch", "registerResource", "libraryLoad", "loadFailed",
               "loaded", "iterate", "fallback", "exited"}
    /\ cmd \in {NoCommand, Verify, List, Cat}
    /\ exitCode \in 0..2
    /\ ret \in BOOLEAN

\* ------------------------------------------------- vocabulary of the claims
Done == pc = "exited"

IsDash(t) == t # <<>> /\ Head(t) = "-"

\* Index of the first token of argv that is not an option (Len(argv)+1: none).
FirstPositional ==
    IF \E i \in 1..Len(argv) : ~IsDash(argv[i])
      THEN CHOOSE i \in 1..Len(argv) :
               ~IsDash(argv[i]) /\ \A j \in 1..(i - 1) : IsDash(argv[j])
      ELSE Len(argv) + 1

\* The options given before the first positional token.
LeadingOptions == {argv[i] : i \in 1..(FirstPositional - 1)}

\* All options of the command line, wherever they stand.
AllOptions == {argv[i] : i \in {j \in 1..Len(argv) : IsDash(argv[j])}}

PositionalCount == Cardinality({i \in 1..Len(argv) : ~IsDash(argv[i])})

CommandNames == {<<"v","e","r","i","f","y">>, <<"l","i","s","t">>, <<"c","a","t">>}

NoRegisteredCommand ==
    FirstPositional > Len(argv) \/ argv[FirstPositional] \notin CommandNames

HelpFlag == <<"-","-","h","e","l","p">>
VersionFlag == <<"-","-","v","e","r","s","i","o","n">>

\* The options the selected command accepts.
Accepted == IF cmd = List THEN {HelpFlag, VersionFlag, <<"-","a">>, <<"-","l">>}
            ELSE {HelpFlag, VersionFlag}

ExpectedArity == IF cmd = Cat THEN 3 ELSE 2

Called(name) == \E i \in 1..Len(calls) : calls[i].call = name

CountCalls(name) == Cardinality({i \in 1..Len(calls) : calls[i].call = name})

\* One of the two load attempts has succeeded.
LoadSucceeded ==
    \E i \in 1..Len(calls) :
        calls[i].call \in {"registerResource", "libraryLoad"} /\ calls[i].ok

BothFailed ==
    /\ \E i \in 1..Len(calls) : calls[i] = Call("registerResource", FALSE)
    /\ \E i \in 1..Len(calls) : calls[i] = Call("libraryLoad", FALSE)

HandlerRan == Called("loadResource")

HandlerSucceeded == LoadSucceeded /\ (cmd = Cat => Call("open", TRUE) \in {calls[i] : i \in 1..Len(calls)})

HelpShown == \E i \in 1..Len(out) : out[i] = HelpText

\* -------------------------------------------------------------------- C1
\* C1 as stated: whenever no registered command is selected, whatever the
\* --help and --version flags, the process shows help and exits with code 1.
C1_AlwaysHelpAndExit1 ==
    (Done /\ NoRegisteredCommand /\ LeadingOptions \subseteq {HelpFlag, VersionFlag})
        => (exitCode = 1 /\ HelpShown)

\* C1 amended: with no registered command and only --help / --version before
\* the first positional token, --version prints the version and exits 0,
\* otherwise --help shows help and exits 0, otherwise help is shown with exit 1.
C1_NoCommandExit ==
    (Done /\ NoRegisteredCommand /\ LeadingOptions \subseteq {HelpFlag, VersionFlag})
        => /\ err = <<>> /\ written = <<>> /\ calls = <<>>
           /\ IF VersionFlag \in LeadingOptions
                THEN exitCode = 0 /\ out = <<VersionText>>
              ELSE IF HelpFlag \in LeadingOptions
                THEN exitCode = 0 /\ out = <<HelpText>>
              ELSE exitCode = 1 /\ out = <<HelpText>>

C1_Witness ==
    /\ Done /\ NoRegisteredCommand
    /\ FirstPositional <= Len(argv)
    /\ LeadingOptions = {HelpFlag}
    /\ exitCode = 0

\* -------------------------------------------------------------------- C2
\* C2 as stated: with a registered command, exit 0 only after the handler ran
\* and succeeded, exit 1 on every path that ends before the handler runs, and
\* exit 2 exactly when the handler ran and the load or the cat open failed.
C2_ExitCodesAsStated ==
    (Done /\ cmd # NoCommand)
        => /\ exitCode = 0 => (HandlerRan /\ HandlerSucceeded)
           /\ ~HandlerRan => exitCode = 1
           /\ exitCode = 2 <=> (HandlerRan /\ ~HandlerSucceeded)

\* C2 amended: with a registered command, a run that ends before the handler
\* exits 0 when all options are accepted and --help or --version is among
\* them, and 1 otherwise; a run whose handler ran exits 0 when it succeeded and
\* 2 when the load or the cat open failed.
C2_ExitCodes ==
    (Done /\ cmd # NoCommand)
        => /\ exitCode \in {0, 1, 2}
           /\ ~HandlerRan =>
                 exitCode = IF /\ AllOptions \subseteq Accepted
                               /\ AllOptions \cap {HelpFlag, VersionFlag} # {}
                            THEN 0 ELSE 1
           /\ HandlerRan => exitCode = IF HandlerSucceeded THEN 0 ELSE 2
           /\ HandlerRan <=> /\ AllOptions \subseteq Accepted \ {HelpFlag, VersionFlag}
                             /\ PositionalCount = ExpectedArity

C2_Witness ==
    /\ Done /\ cmd = Verify /\ ~HandlerRan
    /\ PositionalCount = 3 /\ AllOptions = {}
    /\ exitCode = 1

\* -------------------------------------------------------------------- C3
\* C3 as stated: when cat succeeds, the bytes written to standard output are
\* the complete contents of the target file, zero bytes included.
C3_CatWritesWholeFile ==
    (Done /\ cmd = Cat /\ Called("write")) => written = ReadAll(clp.pos[2], resource)

\* -------------------------------------------------------------------- C4
Scheme == <<"q","r","c",":","/">>
Root == <<":","/">>

\* The name left when one leading :/ or qrc:/ is taken off an operand.
NameOf(t) == IF StartsWith(t, Scheme) THEN SubSeq(t, 6, Len(t))
             ELSE IF StartsWith(t, Root) THEN SubSeq(t, 3, Len(t))
             ELSE t

\* C4: for a name x beginning with neither :/ nor qrc:/, the operands x, :/x
\* and qrc:/x are all opened as :/x, and the exit code and the bytes written
\* are those of :/x.
C4_SameVirtualPath ==
    (cmd = Cat /\ pc \in {"fallback", "exited"} /\ ret)
        => LET x == NameOf(argv[3])
               target == Root \o x
               found == \E i \in 1..Len(Mounted(argv[2])) :
                            /\ Mounted(argv[2])[i].path = target
                            /\ ~Mounted(argv[2])[i].isDir
           IN  (~StartsWith(x, Root) /\ ~StartsWith(x, Scheme))
                   => /\ resource = target
                      /\ Done => exitCode = IF found THEN 0 ELSE 2
                      /\ ~found => written = <<>>
                      /\ found => written = Contents(ReadAll(argv[2], target))

C4_Witness ==
    /\ Done /\ cmd = Cat /\ exitCode = 0
    /\ argv[3] = Scheme \o <<"q">>
    /\ resource = <<":","/","q">>

\* -------------------------------------------------------------------- C5
InReservedDirectory(path) ==
    path = QtPrivatePrefix \/ StartsWith(path, Append(QtPrivatePrefix, "/"))

OptionGiven(t) == \E i \in 1..Len(argv) : argv[i] = t

\* The path a printed line ends with.
PathOfLine(text) == IF OptionGiven(<<"-","l">>) THEN SubSeq(text, 16, Len(text)) ELSE text

PrintedPaths == [i \in 1..Len(out) |-> PathOfLine(out[i].text)]

\* The entries the iterator has yielded so far.
Yielded == SubSeq(Mounted(clp.pos[2]), 1, it)

PathsWhere(entries, Keep(_)) ==
    LET kept == SelectSeq(entries, Keep) IN [i \in 1..Len(kept) |-> kept[i].path]

KeepOutsideDirectory(e) == OptionGiven(<<"-","a">>) \/ ~InReservedDirectory(e.path)

KeepWithoutPrefix(e) == OptionGiven(<<"-","a">>) \/ ~StartsWith(e.path, QtPrivatePrefix)

\* C5 as stated: list prints an entry iff -a is set or the entry is not inside
\* the :/qt-project.org directory, once each, in enumeration order.
C5_FilterByDirectory ==
    (cmd = List /\ LoadSucceeded /\ pc \in {"iterate", "exited"})
        => PrintedPaths = PathsWhere(Yielded, KeepOutsideDirectory)

\* C5 amended: list prints an entry iff -a is set or the entry's path does not
\* begin with the string :/qt-project.org, once each, in enumeration order.
C5_FilterByPrefix ==
    (cmd = List /\ LoadSucceeded /\ pc \in {"iterate", "exited"})
        => /\ PrintedPaths = PathsWhere(Yielded, KeepWithoutPrefix)
           /\ Done => it = Len(Mounted(clp.pos[2]))

C5_Witness ==
    /\ Done /\ cmd = List /\ exitCode = 0
    /\ ~OptionGiven(<<"-","a">>)
    /\ Len(out) = 4
    /\ Len(Mounted(clp.pos[2])) = 8

\* -------------------------------------------------------------------- C6
NoLoadAttempt == ~Called("loadResource") /\ ~Called("registerResource") /\ ~Called("libraryLoad")

\* C6 as stated: whenever the number of positional tokens differs from the
\* command's arity, the process shows help, exits 1 and attempts no load
\* (read here for command lines whose options the command accepts).
C6_ArityAsStated ==
    (cmd # NoCommand /\ PositionalCount # ExpectedArity /\ AllOptions \subseteq Accepted)
        => /\ NoLoadAttempt
           /\ Done => (exitCode = 1 /\ HelpShown)

\* C6 amended: whenever the number of positional tokens differs from the
\* command's arity, no load is attempted at any point of the run; the process
\* shows help and exits 1 when all options are accepted and neither --help nor
\* --version is among them.
C6_Arity ==
    (cmd # NoCommand /\ PositionalCount # ExpectedArity)
        => /\ NoLoadAttempt
           /\ pc \in {"switch", "exited"}
           /\ (Done /\ AllOptions \subseteq Accepted \ {HelpFlag, VersionFlag})
                  => (exitCode = 1 /\ out = <<HelpText>> /\ err = <<>>)

C6_Witness ==
    /\ Done /\ cmd = Cat
    /\ PositionalCount = 2 /\ AllOptions = {}
    /\ exitCode = 1 /\ HelpShown

\* -------------------------------------------------------------------- C7
OpenFailed == \E i \in 1..Len(calls) : calls[i] = Call("open", FALSE)

\* What cat reports when the normalized target cannot be opened.
CatOpenFailure ==
    (Done /\ cmd = Cat /\ OpenFailed)
        => /\ exitCode = 2
           /\ out = <<>> /\ written = <<>>
           /\ err = <<[kind |-> "open", path |-> Root \o NameOf(argv[Len(argv)]),
                       errors |-> <<fileErrorString>>]>>

\* C7 as stated: in a run of list or cat nothing is written to standard
\* output before the load has succeeded, and a cat whose target cannot be
\* opened exits 2 with one error line and nothing on standard output.
C7_NoOutputAsStated ==
    /\ (cmd \in {List, Cat} /\ ~LoadSucceeded) => (out = <<>> /\ written = <<>>)
    /\ CatOpenFailure

\* C7 amended: in a run of list or cat, before the load has succeeded nothing
\* but the parser's help or version text is written to standard output, and
\* nothing at all once the load has been attempted; a cat whose target cannot
\* be opened exits 2 with one error line and nothing on standard output.
C7_NoOutputBeforeLoad ==
    /\ (cmd \in {List, Cat} /\ ~LoadSucceeded)
           => /\ written = <<>>
              /\ \A i \in 1..Len(out) : out[i] \in {HelpText, VersionText}
              /\ HandlerRan => out = <<>>
    /\ CatOpenFailure

C7_Witness ==
    /\ Done /\ cmd = Cat /\ LoadSucceeded /\ OpenFailed
    /\ exitCode = 2 /\ Len(err) = 1

\* -------------------------------------------------------------------- C8
DigitValue(ch) ==
    CASE ch = "0" -> 0 [] ch = "1" -> 1 [] ch = "2" -> 2 [] ch = "3" -> 3
      [] ch = "4" -> 4 [] ch = "5" -> 5 [] ch = "6" -> 6 [] ch = "7" -> 7
      [] ch = "8" -> 8 [] ch = "9" -> 9 [] OTHER -> -1

RECURSIVE NumberValue(_)
NumberValue(s) ==
    IF s = <<>> THEN 0 ELSE 10 * NumberValue(SubSeq(s, 1, Len(s) - 1)) + DigitValue(s[Len(s)])

\* field is the decimal numeral of n, right-justified with spaces.
RightJustified(field, n) ==
    \E k \in 0..(Len(field) - 1) :
        /\ \A i \in 1..k : field[i] = " "
        /\ \A i \in (k + 1)..Len(field) : DigitValue(field[i]) >= 0
        /\ (Len(field) - k > 1) => field[k + 1] # "0"
        /\ NumberValue(SubSeq(field, k + 1, Len(field))) = n

ShownEntries == SelectSeq(Yielded, KeepWithoutPrefix)

LongLine(text, e) ==
    /\ Len(text) = 15 + Len(e.path)
    /\ text[1] = IF e.isDir THEN "d" ELSE "-"
    /\ SubSeq(text, 2, 3) = <<" ", " ">>
    /\ RightJustified(SubSeq(text, 4, 13), e.size)
    /\ SubSeq(text, 14, 15) = <<" ", " ">>
    /\ SubSeq(text, 16, Len(text)) = e.path

\* C8: with -l every line list prints is the type character (d for a directory,
\* - otherwise), the size right-justified in 10 columns, and the path; without
\* -l it is the path alone.
C8_LineFormat ==
    (cmd = List /\ LoadSucceeded /\ pc \in {"iterate", "exited"})
        => /\ Len(out) = Len(ShownEntries)
           /\ \A i \in 1..Len(out) :
                  /\ out[i].kind = "line"
                  /\ IF OptionGiven(<<"-","l">>)
                       THEN LongLine(out[i].text, ShownEntries[i])
                       ELSE out[i].text = ShownEntries[i].path

C8_Witness ==
    /\ Done /\ cmd = List /\ OptionGiven(<<"-","l">>) /\ OptionGiven(<<"-","a">>)
    /\ Len(out) = 8
    /\ out[6].text[1] = "-"
    /\ SubSeq(out[6].text, 4, 13) = <<" "," "," "," "," "," "," ","1","2","0">>

\* -------------------------------------------------------------------- C9
IndexOf(name) == CHOOSE i \in 1..Len(calls) : calls[i].call = name

LoadMessages == SelectSeq(err, LAMBDA m : m.kind = "load")

LoadReturned == HandlerRan /\ pc \in {"loaded", "iterate", "fallback", "exited"}

\* C9: loadResource attempts the mount first and once, the library load at
\* most once and only after the mount failed; it returns success iff one
\* attempt succeeded, and writes one message holding both reasons in attempt
\* order iff both failed.
C9_TwoStepLoad ==
    /\ CountCalls("registerResource") <= 1
    /\ CountCalls("libraryLoad") <= 1
    /\ Called("libraryLoad")
           => /\ Called("registerResource")
              /\ IndexOf("registerResource") < IndexOf("libraryLoad")
              /\ ~calls[IndexOf("registerResource")].ok
    /\ LoadReturned
           => /\ CountCalls("registerResource") = 1
              /\ Called("libraryLoad") <=> ~calls[IndexOf("registerResource")].ok
              /\ ret <=> LoadSucceeded
              /\ LoadMessages =
                     IF BothFailed
                       THEN <<[kind |-> "load", path |-> clp.pos[2],
                               errors |-> <<"Cannot load as Qt Resource file",
                                            libraryErrorString>>]>>
                       ELSE <<>>
    /\ ~LoadReturned => LoadMessages = <<>>

C9_Witness ==
    /\ Done /\ cmd = Verify /\ BothFailed
    /\ exitCode = 2 /\ Len(err) = 1 /\ Len(err[1].errors) = 2

\* ------------------------------------------------------------------- C10
Before(a, b) == \E i, j \in 1..Len(calls) : i < j /\ calls[i].call = a /\ calls[j].call = b

\* C10: an invocation calls the load at most once, enumerates at most once
\* (list only) and reads a file at most once (cat only); enumeration and read
\* come only after the load returned success, and verify does neither.
C10_OneLoadOneAction ==
    /\ CountCalls("loadResource") <= 1
    /\ CountCalls("QDirIterator") <= 1
    /\ CountCalls("open") <= 1
    /\ CountCalls("readAll") <= 1
    /\ Called("QDirIterator") => cmd = List
    /\ (Called("open") \/ Called("readAll")) => cmd = Cat
    /\ (Called("QDirIterator") \/ Called("open") \/ Called("readAll"))
           => /\ LoadSucceeded
              /\ \E i \in 1..Len(calls) :
                     /\ calls[i].call \in {"registerResource", "libraryLoad"}
                     /\ calls[i].ok
                     /\ \A j \in 1..Len(calls) :
                            calls[j].call \in {"QDirIterator", "open", "readAll"} => i < j
              /\ Before("loadResource", "registerResource")
    /\ Called("readAll") => Before("open", "readAll")
    /\ (it > 0 \/ pc = "iterate") => Called("QDirIterator")
    /\ written # <<>> => Called("readAll")

C10_Witness ==
    /\ Done /\ cmd = Cat /\ exitCode = 0
    /\ Called("readAll") /\ CountCalls("loadResource") = 1
    /\ calls[2] = Call("registerResource", FALSE)

====
